---- MODULE Spec2Model ----
(***************************************************************************)
(* Model of folder-readme (src/src/App.tsx and its multi-ignore variant    *)
(* src/unnamed/part_000): the path -> tree -> text pipeline of             *)
(* handlePreview, the deferred run it schedules, handleStartOver and       *)
(* handleGenerateReadme.                                                   *)
(*                                                                         *)
(* A JavaScript string is a sequence of tokens.  A token is one character  *)
(* ("/", the newline, the backtick, a digit) or a word that is never split *)
(* ("proj", "node_modules").  No word contains a separator, so split and   *)
(* join act on these sequences exactly as they act on the characters.      *)
(*                                                                         *)
(* A JavaScript object is the ordered list of its own enumerable           *)
(* properties, in the order Object.keys and for-in enumerate them.  Every  *)
(* property value the program stores is a fresh {} stored once, so the own *)
(* properties form a forest and an object is identified by a cursor: the   *)
(* root it hangs under and the keys leading to it.                         *)
(***************************************************************************)
EXTENDS Integers, Sequences, FiniteSets, TLC

(***************************************************************************)
(* Strings                                                                 *)
(***************************************************************************)
SLASH == "/"
NL == "\n"
\* the character U+0060 (the lexer of TLA+ rejects it inside a string)
BACKTICK == "<backtick>"

\* The four pieces of indentation of treeToString, in ASCII: TEE stands for
\* U+251C U+2500 U+2500 SPACE, ELL for U+2514 U+2500 U+2500 SPACE, BAR for
\* U+2502 and three spaces, BLANK for four spaces.
TEE == "|-- "
ELL == "+-- "
BAR == "|   "
BLANK == "    "

EmptyStr == << >>

RECURSIVE split(_, _)
\* String.prototype.split(sep) for a one-character separator: always at
\* least one piece, empty pieces kept.
split(s, sep) ==
  IF \A i \in 1..Len(s) : s[i] # sep
  THEN << s >>
  ELSE LET \* cut at the separator nearest the middle: the pieces left of it,
           \* then the pieces right of it
           Dist(i) == IF 2 * i >= Len(s) THEN 2 * i - Len(s) ELSE Len(s) - 2 * i
           i == CHOOSE i \in 1..Len(s) :
                  /\ s[i] = sep
                  /\ \A j \in 1..Len(s) :
                       s[j] = sep => (Dist(i) < Dist(j) \/ (Dist(i) = Dist(j) /\ i <= j))
       IN split(SubSeq(s, 1, i - 1), sep) \o split(SubSeq(s, i + 1, Len(s)), sep)

RECURSIVE join(_, _)
\* Array.prototype.join(sep)
join(parts, sep) ==
  IF parts = << >> THEN EmptyStr
  ELSE IF Len(parts) = 1 THEN parts[1]
  ELSE LET half == Len(parts) \div 2
       IN join(SubSeq(parts, 1, half), sep) \o << sep >>
            \o join(SubSeq(parts, half + 1, Len(parts)), sep)

\* Array.prototype.slice(0, n)
slice0(arr, n) == SubSeq(arr, 1, IF Len(arr) < n THEN Len(arr) ELSE n)

Digits == << "0", "1", "2", "3", "4", "5", "6", "7", "8", "9" >>
IsDigit(t) == \E d \in 1..10 : Digits[d] = t
DigitValue(t) == (CHOOSE d \in 1..10 : Digits[d] = t) - 1

RECURSIVE NumValue(_)
NumValue(s) ==
  IF s = << >> THEN 0
  ELSE 10 * NumValue(SubSeq(s, 1, Len(s) - 1)) + DigitValue(s[Len(s)])

RECURSIVE numToString(_)
\* String(n) for a natural number, as the template literal formats it
numToString(n) ==
  IF n < 10 THEN << Digits[n + 1] >>
  ELSE numToString(n \div 10) \o << Digits[(n % 10) + 1] >>

\* A property key that JavaScript treats as an integer index: a canonical
\* decimal numeral (no leading zero).  Such keys are enumerated first, in
\* ascending numeric order, whatever their insertion order.  (The upper limit
\* 2^32 - 2 is beyond every name of the model.)
IsArrayIndex(key) ==
  /\ Len(key) > 0
  /\ \A i \in 1..Len(key) : IsDigit(key[i])
  /\ (Len(key) > 1 => key[1] # "0")

(***************************************************************************)
(* Objects                                                                 *)
(***************************************************************************)
NoKeys == << >>

RECURSIVE OwnKeys(_)
\* Object.keys(obj)
OwnKeys(obj) ==
  IF Len(obj) = 0 THEN << >>
  ELSE IF Len(obj) = 1 THEN << obj[1].key >>
  ELSE LET half == Len(obj) \div 2
       IN OwnKeys(SubSeq(obj, 1, half)) \o OwnKeys(SubSeq(obj, half + 1, Len(obj)))
HasOwn(obj, key) == \E i \in 1..Len(obj) : obj[i].key = key
OwnVal(obj, key) == obj[CHOOSE i \in 1..Len(obj) : obj[i].key = key].val

\* obj[key] = {} for a key obj does not own: integer indices stay sorted in
\* front, every other key goes last
InsertKey(obj, key) ==
  LET new == [key |-> key, val |-> NoKeys]
  IN IF IsArrayIndex(key)
     THEN LET before == { i \in 1..Len(obj) :
                            IsArrayIndex(obj[i].key)
                            /\ NumValue(obj[i].key) < NumValue(key) }
              n == Cardinality(before)
          IN SubSeq(obj, 1, n) \o << new >> \o SubSeq(obj, n + 1, Len(obj))
     ELSE Append(obj, new)

\* delete obj[key]
DeleteKey(obj, key) == SelectSeq(obj, LAMBDA p : p.key # key)

RECURSIVE GetAt(_, _)
GetAt(obj, path) ==
  IF path = << >> THEN obj ELSE GetAt(OwnVal(obj, Head(path)), Tail(path))

RECURSIVE UpdateAt(_, _, _)
\* obj with the object at path replaced by new
UpdateAt(obj, path, new) ==
  IF path = << >> THEN new
  ELSE LET i == CHOOSE i \in 1..Len(obj) : obj[i].key = Head(path)
       IN SubSeq(obj, 1, i - 1)
          \o << [key |-> obj[i].key,
                 val |-> UpdateAt(obj[i].val, Tail(path), new)] >>
          \o SubSeq(obj, i + 1, Len(obj))

\* The roots objects hang under: the local tree of one buildTree call and the
\* four built-in objects a property lookup on a {} can reach.
TREE == "tree"
OBJECT_PROTOTYPE == "Object.prototype"
OBJECT == "Object"
FUNCTION_PROTOTYPE == "Function.prototype"
FUNCTION == "Function"
NONE == "null"

CONSTRUCTOR == << "constructor" >>
PROTO == << "__proto__" >>

Builtins == { OBJECT_PROTOTYPE, OBJECT, FUNCTION_PROTOTYPE, FUNCTION }

\* The built-in objects of a freshly loaded page: no enumerable property
PristineGlobals ==
  (OBJECT_PROTOTYPE :> NoKeys) @@ (OBJECT :> NoKeys)
    @@ (FUNCTION_PROTOTYPE :> NoKeys) @@ (FUNCTION :> NoKeys)

Cursor(root, path) == [kind |-> "object", root |-> root, path |-> path]
Undefined == [kind |-> "undefined", root |-> NONE, path |-> << >>]
Null == [kind |-> "null", root |-> NONE, path |-> << >>]

ObjAt(w, cur) == GetAt(w[cur.root], cur.path)

\* [[Prototype]] of the object at a cursor
ProtoOf(cur) ==
  IF cur.path # << >> THEN OBJECT_PROTOTYPE
  ELSE CASE cur.root = TREE -> OBJECT_PROTOTYPE
         [] cur.root = OBJECT_PROTOTYPE -> NONE
         [] cur.root = OBJECT -> FUNCTION_PROTOTYPE
         [] cur.root = FUNCTION_PROTOTYPE -> OBJECT_PROTOTYPE
         [] cur.root = FUNCTION -> FUNCTION_PROTOTYPE

\* The non-enumerable own properties of the built-in objects that the names
\* of the model can hit: Object.prototype.constructor is Object,
\* Function.prototype.constructor is Function, and the accessor
\* Object.prototype.__proto__ yields the prototype of the receiver.
BuiltinOwn(holder, key, receiver) ==
  IF holder = OBJECT_PROTOTYPE /\ key = CONSTRUCTOR THEN Cursor(OBJECT, << >>)
  ELSE IF holder = FUNCTION_PROTOTYPE /\ key = CONSTRUCTOR
  THEN Cursor(FUNCTION, << >>)
  ELSE IF holder = OBJECT_PROTOTYPE /\ key = PROTO
  THEN (IF ProtoOf(receiver) = NONE THEN Null
        ELSE Cursor(ProtoOf(receiver), << >>))
  ELSE Undefined

RECURSIVE GetFrom(_, _, _, _)
\* Lookup of key along the prototype chain starting at the built-in holder
GetFrom(w, holder, key, receiver) ==
  IF holder = NONE THEN Undefined
  ELSE IF HasOwn(w[holder], key) THEN Cursor(holder, << key >>)
  ELSE IF BuiltinOwn(holder, key, receiver).kind # "undefined"
  THEN BuiltinOwn(holder, key, receiver)
  ELSE GetFrom(w, ProtoOf(Cursor(holder, << >>)), key, receiver)

\* node[part]: an own property first, then the prototype chain
Get(w, cur, key) ==
  IF HasOwn(ObjAt(w, cur), key) THEN Cursor(cur.root, Append(cur.path, key))
  ELSE IF cur.path = << >> /\ cur.root # TREE
  THEN GetFrom(w, cur.root, key, cur)
  ELSE GetFrom(w, ProtoOf(cur), key, cur)

\* node[part] = {} where node[part] was undefined: a new own property
SetNew(w, cur, key) ==
  [w EXCEPT ![cur.root] = UpdateAt(@, cur.path, InsertKey(ObjAt(w, cur), key))]

\* The built-in objects of a world, without the local tree
GlobalsOf(w) ==
  (OBJECT_PROTOTYPE :> w[OBJECT_PROTOTYPE]) @@ (OBJECT :> w[OBJECT])
    @@ (FUNCTION_PROTOTYPE :> w[FUNCTION_PROTOTYPE]) @@ (FUNCTION :> w[FUNCTION])

\* The outcome of a call: the objects as the call left them, and the
\* exception it threw ("" when it returned)
Outcome(w, thrown) == [world |-> w, thrown |-> thrown]

(***************************************************************************)
(* buildTree                                                               *)
(***************************************************************************)
RECURSIVE walkParts(_, _, _)
\* parts.forEach(part => { if (!node[part]) node[part] = {};
\*                         node = node[part]; })
\* node[part] is falsy when it is undefined, and when it is null, which is
\* Object.prototype.__proto__: assigning to that throws a TypeError, the
\* prototype of Object.prototype being immutable.
walkParts(w, node, parts) ==
  IF parts = << >> THEN Outcome(w, "")
  ELSE LET part == Head(parts)
           found == Get(w, node, part)
       IN CASE found.kind = "object" -> walkParts(w, found, Tail(parts))
            [] found.kind = "undefined" ->
                 walkParts(SetNew(w, node, part),
                           Cursor(node.root, Append(node.path, part)),
                           Tail(parts))
            [] found.kind = "null" -> Outcome(w, "TypeError")

RECURSIVE walkPaths(_, _)
\* filePaths.forEach(path => ...): the first half of the paths in order, then
\* the second half, an exception ending the loop
walkPaths(w, filePaths) ==
  IF Len(filePaths) = 0 THEN Outcome(w, "")
  ELSE IF Len(filePaths) = 1
  THEN walkParts(w, Cursor(TREE, << >>), split(filePaths[1], SLASH))
  ELSE LET half == Len(filePaths) \div 2
           r == walkPaths(w, SubSeq(filePaths, 1, half))
       IN IF r.thrown # "" THEN r
          ELSE walkPaths(r.world, SubSeq(filePaths, half + 1, Len(filePaths)))

\* buildTree(filePaths), run with the built-in objects as globals has them:
\* the tree is a new {} and every path is walked from it
buildTree(globals, filePaths) ==
  walkPaths((TREE :> NoKeys) @@ globals, filePaths)

(***************************************************************************)
(* removeKeyRecursively                                                    *)
(***************************************************************************)
\* Depth of nested calls at which the engine throws RangeError (Maximum call
\* stack size exceeded).  Far above the depth of every tree of the model, so
\* it is only reached by a recursion that never ends.
MaxStack == 8

RECURSIVE ChainKeys(_, _, _)
\* The enumerable keys for-in adds from the prototype chain, names already
\* seen left out
ChainKeys(w, holder, seen) ==
  IF holder = NONE THEN << >>
  ELSE LET more == SelectSeq(OwnKeys(w[holder]),
                             LAMBDA k : \A i \in 1..Len(seen) : seen[i] # k)
       IN more \o ChainKeys(w, ProtoOf(Cursor(holder, << >>)), seen \o more)

\* The keys "for (const key in obj)" is to visit: own enumerable keys, then
\* the inherited enumerable ones
ForInKeys(w, cur) ==
  OwnKeys(ObjAt(w, cur)) \o ChainKeys(w, ProtoOf(cur), OwnKeys(ObjAt(w, cur)))

RECURSIVE removeKeyRecursively(_, _, _, _)
RECURSIVE forIn(_, _, _, _, _)
\* The loop over the keys still to visit: the first half of them in order,
\* then the second half, an exception ending the loop.  A key deleted before
\* its turn is not visited; delete removes an own property only.
forIn(w, obj, keys, keyToRemove, depth) ==
  IF Len(keys) = 0 THEN Outcome(w, "")
  ELSE IF Len(keys) = 1
  THEN LET key == keys[1]
           child == Get(w, obj, key)
       IN IF child.kind # "object" THEN Outcome(w, "")
          ELSE IF key = keyToRemove
          THEN Outcome([w EXCEPT ![obj.root] =
                          UpdateAt(@, obj.path, DeleteKey(ObjAt(w, obj), key))],
                       "")
          ELSE removeKeyRecursively(w, child, keyToRemove, depth + 1)
  ELSE LET half == Len(keys) \div 2
           r == forIn(w, obj, SubSeq(keys, 1, half), keyToRemove, depth)
       IN IF r.thrown # "" THEN r
          ELSE forIn(r.world, obj, SubSeq(keys, half + 1, Len(keys)),
                     keyToRemove, depth)

removeKeyRecursively(w, obj, keyToRemove, depth) ==
  IF depth > MaxStack THEN Outcome(w, "RangeError")
  ELSE forIn(w, obj, ForInKeys(w, obj), keyToRemove, depth)

(***************************************************************************)
(* treeToString                                                            *)
(***************************************************************************)
RECURSIVE treeToString(_, _)
RECURSIVE renderKeys(_, _, _, _)
\* renderKeys as it would be with the two child indents exchanged
renderKeysSwapped(tree, indent, from, to) ==
  IF from > to THEN << >>
  ELSE IF from = to
  THEN LET isLast == from = Len(tree)
           prefix == IF isLast THEN indent \o << ELL >> ELSE indent \o << TEE >>
           children == tree[from].val
           childIndent == indent \o (IF isLast THEN << BAR >> ELSE << BLANK >>)
       IN << prefix \o tree[from].key >>
          \o (IF Len(children) > 0 THEN treeToString(children, childIndent)
              ELSE << >>)
  ELSE LET half == (from + to) \div 2
       IN renderKeys(tree, indent, from, half)
            \o renderKeys(tree, indent, half + 1, to)

\* renderKeys as it would be if the line of a key were pushed after the
\* lines of its children
renderKeysChildrenFirst(tree, indent, from, to) ==
  IF from > to THEN << >>
  ELSE IF from = to
  THEN LET isLast == from = Len(tree)
           prefix == IF isLast THEN indent \o << ELL >> ELSE indent \o << TEE >>
           children == tree[from].val
           childIndent == indent \o (IF isLast THEN << BLANK >> ELSE << BAR >>)
       IN (IF Len(children) > 0 THEN treeToString(children, childIndent)
           ELSE << >>)
          \o << prefix \o tree[from].key >>
  ELSE LET half == (from + to) \div 2
       IN renderKeys(tree, indent, from, half)
            \o renderKeys(tree, indent, half + 1, to)

\* keys.forEach((key, index) => ...) for the indices from..to: the line of a
\* key, then the lines of its children when it has any
renderKeys(tree, indent, from, to) ==
  IF from > to THEN << >>
  ELSE IF from = to
  THEN LET isLast == from = Len(tree)
           prefix == IF isLast THEN indent \o << ELL >> ELSE indent \o << TEE >>
           children == tree[from].val
           childIndent == indent \o (IF isLast THEN << BLANK >> ELSE << BAR >>)
       IN << prefix \o tree[from].key >>
          \o (IF Len(children) > 0 THEN treeToString(children, childIndent)
              ELSE << >>)
  ELSE LET half == (from + to) \div 2
       IN renderKeys(tree, indent, from, half)
            \o renderKeys(tree, indent, half + 1, to)

treeToString(tree, indent) == renderKeys(tree, indent, 1, Len(tree))

(***************************************************************************)
(* The deferred run of handlePreview (the callback given to setTimeout)    *)
(***************************************************************************)
NODE_MODULES == << "node_modules" >>
DOT_GIT == << ".git" >>
DS_STORE == << ".DS_Store" >>

\* Lines of preview shown before truncation
PreviewLimit == 100
\* The loop reports progress at every index that is a multiple of this
ProgressEvery == 100

\* const ignoreFolders = new Set(); one add per file of the ignore input
\* (first segment of its path), then the three fixed names
ignoreFoldersOf(ignoreFiles) ==
  { split(ignoreFiles[i], SLASH)[1] : i \in 1..Len(ignoreFiles) }
    \cup { NODE_MODULES, DOT_GIT, DS_STORE }

\* filterPaths as it would be if the loop tested the last part of the path
filterPathsLastPart(projectFiles, ignoreFolders) ==
  SelectSeq(projectFiles,
            LAMBDA relPath :
              split(relPath, SLASH)[Len(split(relPath, SLASH))] \notin ignoreFolders)

\* The loop over projectFiles: relPath is pushed unless its first part is
\* in ignoreFolders
filterPaths(projectFiles, ignoreFolders) ==
  SelectSeq(projectFiles, LAMBDA relPath : split(relPath, SLASH)[1] \notin ignoreFolders)

\* Math.round(((i + 1) / totalFiles) * 100)
progressAt(i, totalFiles) == (200 * (i + 1) + totalFiles) \div (2 * totalFiles)

\* reportsProgress as it would be without the test for the last index
reportsProgressNoLast(i, totalFiles) == i % ProgressEvery = 0

\* if (i % 100 === 0 || i === totalFiles - 1)
reportsProgress(i, totalFiles) == i % ProgressEvery = 0 \/ i = totalFiles - 1

RECURSIVE progressIndices(_, _, _)
\* The indices from..to of the loop at which setProgress is called, in order
progressIndices(from, to, totalFiles) ==
  IF from > to THEN << >>
  ELSE IF from = to
  THEN (IF reportsProgress(from, totalFiles) THEN << from >> ELSE << >>)
  ELSE LET half == (from + to) \div 2
       IN progressIndices(from, half, totalFiles)
            \o progressIndices(half + 1, to, totalFiles)

RECURSIVE progressFrom(_, _, _)
\* The values passed to setProgress for the indices from..to
progressFrom(from, to, totalFiles) ==
  IF from > to THEN << >>
  ELSE IF from = to
  THEN (IF reportsProgress(from, totalFiles)
        THEN << progressAt(from, totalFiles) >> ELSE << >>)
  ELSE LET half == (from + to) \div 2
       IN progressFrom(from, half, totalFiles)
            \o progressFrom(half + 1, to, totalFiles)

\* The values passed to setProgress by the loop, in order
progressUpdates(totalFiles) == progressFrom(0, totalFiles - 1, totalFiles)

\* pruneTree as it would be without the call for ".git"
pruneTreeNoGit(built) ==
  IF built.thrown # "" THEN built
  ELSE LET a == removeKeyRecursively(built.world, Cursor(TREE, << >>), NODE_MODULES, 1)
       IN IF a.thrown # "" THEN a
          ELSE removeKeyRecursively(a.world, Cursor(TREE, << >>), DS_STORE, 1)

\* The three calls of removeKeyRecursively on the tree; an exception ends
\* the sequence
pruneTree(built) ==
  IF built.thrown # "" THEN built
  ELSE LET a == removeKeyRecursively(built.world, Cursor(TREE, << >>), NODE_MODULES, 1)
       IN IF a.thrown # "" THEN a
          ELSE LET b == removeKeyRecursively(a.world, Cursor(TREE, << >>), DOT_GIT, 1)
               IN IF b.thrown # "" THEN b
                  ELSE removeKeyRecursively(b.world, Cursor(TREE, << >>), DS_STORE, 1)

\* previewOf as it would be with >= in place of >
previewOfAtLimit(structureText) ==
  LET lines == split(structureText, NL)
      preview == join(slice0(lines, PreviewLimit), NL)
  IN IF Len(lines) >= PreviewLimit
     THEN preview \o << NL, "... (truncated, total " >>
                  \o numToString(Len(lines)) \o << " lines)" >>
     ELSE preview

\* let preview = lines.slice(0, 100).join('\n'), with the summary line when
\* there are more lines
previewOf(structureText) ==
  LET lines == split(structureText, NL)
      preview == join(slice0(lines, PreviewLimit), NL)
  IN IF Len(lines) > PreviewLimit
     THEN preview \o << NL, "... (truncated, total " >>
                  \o numToString(Len(lines)) \o << " lines)" >>
     ELSE preview

\* The local values of one run of the callback: the filtered paths, the tree
\* as buildTree returned it, the tree after the three removals, the lines,
\* the texts, and the exception that ended the run ("" when none did)
runCallback(task, globalsNow) ==
  LET paths == filterPaths(task.projectFiles, task.ignoreFolders)
      built == buildTree(globalsNow, paths)
      pruned == pruneTree(built)
      lines == << task.rootFolder >> \o treeToString(pruned.world[TREE], EmptyStr)
      text == join(lines, NL)
      totalFiles == Len(task.projectFiles)
  IN [projectFiles |-> task.projectFiles,
      ignoreFolders |-> task.ignoreFolders,
      rootFolder |-> task.rootFolder,
      filePaths |-> paths,
      progressIndices |-> progressIndices(0, totalFiles - 1, totalFiles),
      progressValues |-> progressUpdates(totalFiles),
      builtTree |-> built.world[TREE],
      tree |-> pruned.world[TREE],
      globals |-> GlobalsOf(pruned.world),
      thrown |-> pruned.thrown,
      structureLines |-> IF pruned.thrown = "" THEN lines ELSE << >>,
      structureText |-> IF pruned.thrown = "" THEN text ELSE EmptyStr,
      preview |-> IF pruned.thrown = "" THEN previewOf(text) ELSE EmptyStr]

(***************************************************************************)
(* State of the App component                                              *)
(***************************************************************************)
VARIABLES
  projectFiles,        \* FileList of the project input, as its paths; null is << >>
  ignoreFiles,         \* FileList of the ignore input, likewise
  previewContent,
  showGenerateButton,
  progress,
  showProgress,
  alert,               \* [show, message]
  rootFolderName,
  structure,
  timers,              \* the callbacks handed to setTimeout(..., 50), oldest first
  globals,             \* enumerable own properties of the built-in objects
  lastRun,             \* local values of the callback that ran last
  download             \* the file the last link.click() saved

vars == << projectFiles, ignoreFiles, previewContent, showGenerateButton,
           progress, showProgress, alert, rootFolderName, structure, timers,
           globals, lastRun, download >>

NullFiles == << >>
PLACEHOLDER == << "[Preview will appear here]" >>
SELECT_PROJECT == << "Please select a project folder." >>
MISSING_STRUCTURE == << "Missing structure or folder name." >>
NoAlert == [show |-> FALSE, message |-> EmptyStr]
NoDownload == [name |-> EmptyStr, content |-> EmptyStr]

RECURSIVE Path(_)
\* A path from its segments (how the inputs of the model are written down)
Path(segments) ==
  IF Len(segments) = 0 THEN EmptyStr
  ELSE IF Len(segments) = 1 THEN << segments[1] >>
  ELSE << segments[1], SLASH >> \o Path(Tail(segments))

\* The folders the user can pick in the project input: the folder proj of the
\* scenario, and a folder lib that holds a directory named __proto__
ProjFolder ==
  << Path(<< "proj", "src", "index.ts" >>),
     Path(<< "proj", "src", "util.ts" >>),
     Path(<< "proj", "README.md" >>),
     Path(<< "proj", "node_modules", "pkg", "index.js" >>) >>
LibFolder ==
  << Path(<< "lib", "__proto__", "x" >>),
     Path(<< "lib", "a" >>) >>
ProjectSelections == { ProjFolder, LibFolder }

\* The folder the user can pick in the ignore input: another folder that is
\* named proj too
OtherProjFolder == << Path(<< "proj", "notes" >>) >>
IgnoreSelections == { OtherProjFolder }

\* Deferred callbacks that may be pending at once
MaxPending == 1

NoRun ==
  [projectFiles |-> NullFiles, ignoreFolders |-> {}, rootFolder |-> EmptyStr,
   filePaths |-> << >>, progressIndices |-> << >>, progressValues |-> << >>,
   builtTree |-> NoKeys, tree |-> NoKeys,
   globals |-> PristineGlobals, thrown |-> "none",
   structureLines |-> << >>, structureText |-> EmptyStr, preview |-> EmptyStr]

Init ==
  /\ projectFiles = NullFiles
  /\ ignoreFiles = NullFiles
  /\ previewContent = PLACEHOLDER
  /\ showGenerateButton = FALSE
  /\ progress = 0
  /\ showProgress = FALSE
  /\ alert = NoAlert
  /\ rootFolderName = EmptyStr
  /\ structure = EmptyStr
  /\ timers = << >>
  /\ globals = PristineGlobals
  /\ lastRun = NoRun
  /\ download = NoDownload

\* showCustomAlert(message) / showAlert(message)
showCustomAlert(message) == alert' = [show |-> TRUE, message |-> message]

\* The alert goes away: its 3 s timer, its close button, the dialog's button
dismissAlert ==
  /\ alert.show
  /\ alert' = NoAlert
  /\ UNCHANGED << projectFiles, ignoreFiles, previewContent, showGenerateButton,
                  progress, showProgress, rootFolderName, structure, timers,
                  globals, lastRun, download >>

handleProjectFilesChange ==
  \E files \in ProjectSelections \cup { NullFiles } :
    /\ projectFiles' = IF Len(files) > 0 THEN files ELSE NullFiles
    /\ UNCHANGED << ignoreFiles, previewContent, showGenerateButton, progress,
                    showProgress, alert, rootFolderName, structure, timers,
                    globals, lastRun, download >>

handleIgnoreFilesChange ==
  \E files \in IgnoreSelections \cup { NullFiles } :
    /\ ignoreFiles' = IF Len(files) > 0 THEN files ELSE NullFiles
    /\ UNCHANGED << projectFiles, previewContent, showGenerateButton, progress,
                    showProgress, alert, rootFolderName, structure, timers,
                    globals, lastRun, download >>

handleStartOver ==
  /\ projectFiles' = NullFiles
  /\ ignoreFiles' = NullFiles
  /\ previewContent' = PLACEHOLDER
  /\ showGenerateButton' = FALSE
  /\ showProgress' = FALSE
  /\ progress' = 0
  /\ rootFolderName' = EmptyStr
  /\ structure' = EmptyStr
  /\ UNCHANGED << alert, timers, globals, lastRun, download >>

\* handlePreview as it would be if it showed the progress bar before it
\* looked at the selection
handlePreviewEager ==
  IF Len(projectFiles) = 0
  THEN /\ showCustomAlert(SELECT_PROJECT)
       /\ showProgress' = TRUE
       /\ UNCHANGED << projectFiles, ignoreFiles, previewContent,
                       showGenerateButton, progress,
                       rootFolderName, structure, timers, globals, lastRun,
                       download >>
  ELSE LET rootFolder == split(projectFiles[1], SLASH)[1]
       IN /\ Len(timers) < MaxPending
          /\ rootFolderName' = rootFolder
          /\ showProgress' = TRUE
          /\ progress' = 0
          /\ timers' = Append(timers,
                              [projectFiles |-> projectFiles,
                               ignoreFolders |-> ignoreFoldersOf(ignoreFiles),
                               rootFolder |-> rootFolder])
          /\ UNCHANGED << projectFiles, ignoreFiles, previewContent,
                          showGenerateButton, alert, structure, globals,
                          lastRun, download >>

handlePreview ==
  IF Len(projectFiles) = 0
  THEN /\ showCustomAlert(SELECT_PROJECT)
       /\ UNCHANGED << projectFiles, ignoreFiles, previewContent,
                       showGenerateButton, progress, showProgress,
                       rootFolderName, structure, timers, globals, lastRun,
                       download >>
  ELSE LET rootFolder == split(projectFiles[1], SLASH)[1]
       IN /\ Len(timers) < MaxPending
          /\ rootFolderName' = rootFolder
          /\ showProgress' = TRUE
          /\ progress' = 0
          /\ timers' = Append(timers,
                              [projectFiles |-> projectFiles,
                               ignoreFolders |-> ignoreFoldersOf(ignoreFiles),
                               rootFolder |-> rootFolder])
          /\ UNCHANGED << projectFiles, ignoreFiles, previewContent,
                          showGenerateButton, alert, structure, globals,
                          lastRun, download >>

\* deferredPreview as it would be if the callback read the ignore selection
\* of the component when it runs
deferredPreviewLive ==
  /\ Len(timers) > 0
  /\ LET live == [Head(timers) EXCEPT !.ignoreFolders = ignoreFoldersOf(ignoreFiles)]
         run == runCallback(live, globals)
         updates == progressUpdates(Len(Head(timers).projectFiles))
     IN /\ timers' = Tail(timers)
        /\ lastRun' = run
        /\ globals' = run.globals
        /\ progress' = updates[Len(updates)]
        /\ IF run.thrown = ""
           THEN /\ structure' = run.structureText
                /\ previewContent' = run.preview
                /\ showGenerateButton' = TRUE
           ELSE UNCHANGED << structure, previewContent, showGenerateButton >>
        /\ UNCHANGED << projectFiles, ignoreFiles, showProgress, alert,
                        rootFolderName, download >>

\* The oldest pending callback runs, start to end.  The setProgress calls of
\* the loop come before anything that can throw; an exception leaves the
\* later setters uncalled.
deferredPreview ==
  /\ Len(timers) > 0
  /\ LET run == runCallback(Head(timers), globals)
         updates == progressUpdates(Len(Head(timers).projectFiles))
     IN /\ timers' = Tail(timers)
        /\ lastRun' = run
        /\ globals' = run.globals
        /\ progress' = updates[Len(updates)]
        /\ IF run.thrown = ""
           THEN /\ structure' = run.structureText
                /\ previewContent' = run.preview
                /\ showGenerateButton' = TRUE
           ELSE UNCHANGED << structure, previewContent, showGenerateButton >>
        /\ UNCHANGED << projectFiles, ignoreFiles, showProgress, alert,
                        rootFolderName, download >>

\* The text of the generated document
readmeContent(structureText) ==
  << "# Project File and Folder Structure", NL, NL,
     "Below is the structure of the project:", NL, NL,
     BACKTICK, BACKTICK, BACKTICK, NL >>
    \o structureText \o << NL, BACKTICK, BACKTICK, BACKTICK >>

\* handleGenerateReadme as it would be with && in place of ||
handleGenerateReadmeBoth ==
  /\ showGenerateButton
  /\ IF structure = EmptyStr /\ rootFolderName = EmptyStr
     THEN /\ showCustomAlert(MISSING_STRUCTURE)
          /\ UNCHANGED download
     ELSE /\ download' = [name |-> rootFolderName \o << ".md" >>,
                          content |-> readmeContent(structure)]
          /\ UNCHANGED alert
  /\ UNCHANGED << projectFiles, ignoreFiles, previewContent, showGenerateButton,
                  progress, showProgress, rootFolderName, structure, timers,
                  globals, lastRun >>

\* The button that calls it is rendered only while showGenerateButton
handleGenerateReadme ==
  /\ showGenerateButton
  /\ IF structure = EmptyStr \/ rootFolderName = EmptyStr
     THEN /\ showCustomAlert(MISSING_STRUCTURE)
          /\ UNCHANGED download
     ELSE /\ download' = [name |-> rootFolderName \o << ".md" >>,
                          content |-> readmeContent(structure)]
          /\ UNCHANGED alert
  /\ UNCHANGED << projectFiles, ignoreFiles, previewContent, showGenerateButton,
                  progress, showProgress, rootFolderName, structure, timers,
                  globals, lastRun >>

Next ==
  \/ handleProjectFilesChange
  \/ handleIgnoreFilesChange
  \/ handleStartOver
  \/ handlePreview
  \/ deferredPreview
  \/ handleGenerateReadme
  \/ dismissAlert

Spec == Init /\ [][Next]_vars

(***************************************************************************)
(* The pipeline on arbitrary path lists: the component starts with a       *)
(* project selection and an ignore selection already made, then            *)
(* handlePreview and its callback run.                                     *)
(***************************************************************************)
\* Files in a project selection
MaxFiles == 3

PathPool ==
  { Path(<< "proj", "src", "x.ts" >>),
    Path(<< "proj", "2" >>),
    Path(<< "proj", "node_modules", "pkg" >>),
    Path(<< "proj", "src", ".git" >>),
    Path(<< "proj", "constructor", "x.ts" >>),
    Path(<< "node_modules", "pkg" >>),
    Path(<< "docs", "x.ts" >>) }

PathLists == UNION { [1..n -> PathPool] : n \in 1..MaxFiles }

\* Ignore selections: none, or the directories src and docs
IgnoreLists ==
  { NullFiles,
    << Path(<< "src", "x.ts" >>), Path(<< "docs", "x.ts" >>) >> }

InitPipeline ==
  /\ projectFiles \in PathLists
  /\ ignoreFiles \in IgnoreLists
  /\ previewContent = PLACEHOLDER
  /\ showGenerateButton = FALSE
  /\ progress = 0
  /\ showProgress = FALSE
  /\ alert = NoAlert
  /\ rootFolderName = EmptyStr
  /\ structure = EmptyStr
  /\ timers = << >>
  /\ globals = PristineGlobals
  /\ lastRun = NoRun
  /\ download = NoDownload

NextPipeline == handlePreview \/ deferredPreview

SpecPipeline == InitPipeline /\ [][NextPipeline]_vars

(***************************************************************************)
(* Vocabulary of the properties (defined without the operators above)      *)
(***************************************************************************)
BuiltinIgnores == { NODE_MODULES, DOT_GIT, DS_STORE }

\* The tokens of a path before its first "/"
FirstSegment(path) ==
  LET stops == { i \in 1..Len(path) : path[i] = SLASH }
  IN IF stops = {} THEN path
     ELSE SubSeq(path, 1, (CHOOSE i \in stops : \A j \in stops : i <= j) - 1)

\* The pieces of a text between its separators, read from their positions
Pieces(path, sep) ==
  LET stops == { i \in 1..Len(path) : path[i] = sep }
      n == Cardinality(stops)
      \* position of the k-th separator; 0 and Len + 1 close the ends
      stop(k) == IF k = 0 THEN 0
                 ELSE IF k = n + 1 THEN Len(path) + 1
                 ELSE CHOOSE i \in stops :
                        Cardinality({ j \in stops : j < i }) = k - 1
  IN [k \in 1..(n + 1) |-> SubSeq(path, stop(k - 1) + 1, stop(k) - 1)]

\* The segments of a path
Segments(path) == Pieces(path, SLASH)

\* The non-empty prefixes of the segment sequences of the paths
Prefixes(paths) ==
  UNION { { SubSeq(Segments(paths[i]), 1, n) : n \in 1..Len(Segments(paths[i])) }
          : i \in 1..Len(paths) }

RECURSIVE NodePaths(_)
\* The key sequences leading from the root of a tree to each of its nodes
NodePaths(tree) ==
  UNION { { << tree[i].key >> } \cup
          { << tree[i].key >> \o p : p \in NodePaths(tree[i].val) }
          : i \in 1..Len(tree) }

\* A run of the callback has completed / has ended, normally or not
RunCompleted == lastRun.thrown = ""
RunEnded == lastRun.thrown # "none"

\* The step is a run of the oldest pending callback
IsDeferredStep == Len(timers) > 0 /\ timers' = Tail(timers)

(***************************************************************************)
(* C1                                                                      *)
(***************************************************************************)
ScenarioText ==
  << "proj", NL,
     TEE, "src", NL,
     BAR, TEE, "index.ts", NL,
     BAR, ELL, "util.ts", NL,
     ELL, "README.md" >>

\* C1: the callback of a handlePreview made on the scenario's four paths with
\* no user ignore selection stores as structure exactly the five lines proj,
\* src, index.ts, util.ts, README.md of the scenario.
C1_ScenarioStructure ==
  [][(/\ IsDeferredStep
      /\ Head(timers).projectFiles = ProjFolder
      /\ Head(timers).ignoreFolders = BuiltinIgnores
      /\ globals = PristineGlobals)
     => structure' = ScenarioText]_vars

(***************************************************************************)
(* C2                                                                      *)
(***************************************************************************)
SharedRoot(paths, R) ==
  \A i \in 1..Len(paths) : Len(Segments(paths[i])) >= 2 /\ Segments(paths[i])[1] = R

\* C2: when every path of a completed run starts with the root folder name R,
\* the tree handed to treeToString has as keys the segments one level below R
\* (the blocked names removed) and not R, and the lines are R followed by the
\* rendering of that tree at empty indent.
C2_RootIsNotAKey ==
  (RunCompleted /\ SharedRoot(lastRun.filePaths, lastRun.rootFolder))
  => /\ ~ HasOwn(lastRun.tree, lastRun.rootFolder)
     /\ { lastRun.tree[i].key : i \in 1..Len(lastRun.tree) }
          = { Segments(lastRun.filePaths[i])[2] : i \in 1..Len(lastRun.filePaths) }
              \ BuiltinIgnores
     /\ lastRun.structureLines
          = << lastRun.rootFolder >> \o treeToString(lastRun.tree, EmptyStr)
     /\ \A k \in 2..Len(lastRun.structureLines) :
          lastRun.structureLines[k][Len(lastRun.structureLines[k])]
            # lastRun.rootFolder[1]

(***************************************************************************)
(* C3                                                                      *)
(***************************************************************************)
\* The names the user's ignore selection contributes
UserIgnores == { FirstSegment(ignoreFiles[i]) : i \in 1..Len(ignoreFiles) }

\* Indices of the paths of the run whose first segment is not ignored
KeptIndices ==
  { i \in 1..Len(lastRun.projectFiles) :
      FirstSegment(lastRun.projectFiles[i]) \notin UserIgnores \cup BuiltinIgnores }

\* The k-th smallest kept index
KeptIndex(k) ==
  CHOOSE i \in KeptIndices : Cardinality({ j \in KeptIndices : j < i }) = k - 1

\* C3: the filtered list of a run holds exactly the input paths whose first
\* segment is in neither the user's ignore names nor the three built-in names,
\* in input order and with their multiplicity, and the set the run filters
\* with contains the three built-in names.
C3_Filter ==
  RunEnded
  => /\ BuiltinIgnores \subseteq lastRun.ignoreFolders
     /\ Len(lastRun.filePaths) = Cardinality(KeptIndices)
     /\ \A k \in 1..Len(lastRun.filePaths) :
          lastRun.filePaths[k] = lastRun.projectFiles[KeptIndex(k)]

\* A run that kept one path and dropped another for a user name and a third
\* for a built-in name
C3_Witness ==
  /\ RunEnded
  /\ lastRun.filePaths # << >>
  /\ \E i \in 1..Len(lastRun.projectFiles) :
       FirstSegment(lastRun.projectFiles[i]) \in UserIgnores
  /\ \E i \in 1..Len(lastRun.projectFiles) :
       FirstSegment(lastRun.projectFiles[i]) \in BuiltinIgnores

(***************************************************************************)
(* C4                                                                      *)
(***************************************************************************)
HasBlocked(p) == \E i \in 1..Len(p) : p[i] \in BuiltinIgnores

\* C4: after the three removals have returned, the nodes of the tree are
\* exactly the nodes buildTree made whose path from the root holds none of
\* the three names: no blocked node, nothing below one, nothing else lost.
C4_PruneAnyDepth ==
  RunCompleted
  => NodePaths(lastRun.tree)
       = { p \in NodePaths(lastRun.builtTree) : ~ HasBlocked(p) }

\* A completed run whose tree held node_modules with a child below a kept
\* folder, and .git two levels down
C4_Witness ==
  /\ RunCompleted
  /\ << << "proj" >>, NODE_MODULES, << "pkg" >> >> \in NodePaths(lastRun.builtTree)
  /\ << << "proj" >>, << "src" >>, DOT_GIT >> \in NodePaths(lastRun.builtTree)
  /\ << << "proj" >>, << "src" >> >> \in NodePaths(lastRun.tree)

(***************************************************************************)
(* C5                                                                      *)
(***************************************************************************)
Last(p) == p[Len(p)]
Front(p) == SubSeq(p, 1, Len(p) - 1)
IsPrefixOf(p, q) == Len(p) <= Len(q) /\ SubSeq(q, 1, Len(p)) = p

RECURSIVE NodeCount(_)
\* Nodes of a tree, each counted once per occurrence
NodeCount(tree) ==
  IF Len(tree) = 0 THEN 0
  ELSE IF Len(tree) = 1 THEN 1 + NodeCount(tree[1].val)
  ELSE LET half == Len(tree) \div 2
       IN NodeCount(SubSeq(tree, 1, half))
            + NodeCount(SubSeq(tree, half + 1, Len(tree)))

RECURSIVE LineOf(_, _)
\* Rank of the node at path p among the nodes of the tree, counted depth
\* first: a node, then what is below it, then its next sibling
LineOf(tree, p) ==
  LET i == CHOOSE i \in 1..Len(tree) : tree[i].key = Head(p)
  IN NodeCount(SubSeq(tree, 1, i - 1)) + 1
       + (IF Len(p) = 1 THEN 0 ELSE LineOf(tree[i].val, Tail(p)))

\* The line the run emitted for the node at path p (after the root line)
RunLine(p) == lastRun.structureLines[1 + LineOf(lastRun.tree, p)]

\* Index of the first path of the run that goes through the node at path p
FirstUse(p) ==
  CHOOSE i \in 1..Len(lastRun.filePaths) :
    /\ IsPrefixOf(p, Segments(lastRun.filePaths[i]))
    /\ \A j \in 1..(i - 1) : ~ IsPrefixOf(p, Segments(lastRun.filePaths[j]))

EndsWith(line, key) ==
  Len(line) >= Len(key) /\ SubSeq(line, Len(line) - Len(key) + 1, Len(line)) = key

\* C5: of two sibling nodes, the one whose name first occurs at that place in
\* an earlier path has the earlier line, digit names included.
C5_InsertionOrder ==
  RunCompleted
  => \A p, q \in NodePaths(lastRun.tree) :
       (Len(p) = Len(q) /\ Front(p) = Front(q) /\ FirstUse(p) < FirstUse(q))
       => /\ EndsWith(RunLine(p), Last(p))
          /\ EndsWith(RunLine(q), Last(q))
          /\ LineOf(lastRun.tree, p) < LineOf(lastRun.tree, q)

(***************************************************************************)
(* C6                                                                      *)
(***************************************************************************)
\* The node at path p is the last key of its parent
IsLastSibling(tree, p) ==
  LET parent == GetAt(tree, Front(p))
  IN parent[Len(parent)].key = Last(p)

\* One piece of indent per ancestor below the root, outermost first
AncestorIndent(tree, p) ==
  [i \in 1..(Len(p) - 1) |->
     IF IsLastSibling(tree, SubSeq(p, 1, i)) THEN BLANK ELSE BAR]

\* C6: the line of every node is the indent given by its ancestors, then the
\* connector of a last sibling or of a sibling that is not last, then its key.
C6_Connectors ==
  RunCompleted
  => \A p \in NodePaths(lastRun.tree) :
       RunLine(p)
         = AncestorIndent(lastRun.tree, p)
             \o << IF IsLastSibling(lastRun.tree, p) THEN ELL ELSE TEE >>
             \o Last(p)

\* A completed run with a folder that is not last, whose last child has a
\* child of its own
C6_Witness ==
  /\ RunCompleted
  /\ \E k \in 1..Len(lastRun.structureLines) :
       lastRun.structureLines[k] = << TEE, "proj" >>
  /\ \E k \in 1..Len(lastRun.structureLines) :
       lastRun.structureLines[k] = << BAR, BLANK, ELL, "x.ts" >>

(***************************************************************************)
(* C7                                                                      *)
(***************************************************************************)
Reverse(seq) == [i \in 1..Len(seq) |-> seq[Len(seq) + 1 - i]]

BuiltNodes(paths) == NodePaths(buildTree(PristineGlobals, paths).world[TREE])

\* C7: buildTree on a freshly loaded page yields one node per distinct
\* non-empty segment prefix of the paths and no other node, and the same
\* nodes for the paths in reverse order and for the paths with one repeated.
C7_SetUnion ==
  [][(IsDeferredStep /\ globals = PristineGlobals)
     => /\ NodePaths(lastRun'.builtTree) = Prefixes(lastRun'.filePaths)
        /\ NodeCount(lastRun'.builtTree) = Cardinality(Prefixes(lastRun'.filePaths))
        /\ BuiltNodes(Reverse(lastRun'.filePaths)) = NodePaths(lastRun'.builtTree)
        /\ BuiltNodes(lastRun'.filePaths \o lastRun'.filePaths)
             = NodePaths(lastRun'.builtTree)]_vars

(***************************************************************************)
(* The pipeline on large folders: big/f1 ... big/fn                        *)
(***************************************************************************)
MinLargeFiles == 80
MaxLargeFiles == 120

RECURSIVE LargeRange(_, _)
LargeRange(from, to) ==
  IF from > to THEN << >>
  ELSE IF from = to THEN << << "big", SLASH, "f" >> \o numToString(from) >>
  ELSE LET half == (from + to) \div 2
       IN LargeRange(from, half) \o LargeRange(half + 1, to)

LargeFolder(n) == LargeRange(1, n)

InitLarge ==
  /\ projectFiles \in { LargeFolder(n) : n \in MinLargeFiles..MaxLargeFiles }
  /\ ignoreFiles = NullFiles
  /\ previewContent = PLACEHOLDER
  /\ showGenerateButton = FALSE
  /\ progress = 0
  /\ showProgress = FALSE
  /\ alert = NoAlert
  /\ rootFolderName = EmptyStr
  /\ structure = EmptyStr
  /\ timers = << >>
  /\ globals = PristineGlobals
  /\ lastRun = NoRun
  /\ download = NoDownload

SpecLarge == InitLarge /\ [][NextPipeline]_vars

(***************************************************************************)
(* C8                                                                      *)
(***************************************************************************)
LineCount(text) == 1 + Cardinality({ i \in 1..Len(text) : text[i] = NL })

\* The first n lines of a text of more than n lines
FirstLines(text, n) ==
  LET stops == { i \in 1..Len(text) : text[i] = NL }
      cut == CHOOSE i \in stops : Cardinality({ j \in stops : j < i }) = n - 1
  IN SubSeq(text, 1, cut - 1)

\* C8: once a run has stored its texts, structure is the full text of all the
\* lines of the run; previewContent is structure when that has at most 100
\* lines, and otherwise its first 100 lines and the one line
\* "... (truncated, total N lines)", N the number of lines of structure.
C8_PreviewTruncation ==
  showGenerateButton
  => LET N == LineCount(structure)
         head == FirstLines(structure, 100)
         count == SubSeq(previewContent, Len(head) + 3, Len(previewContent) - 1)
     IN /\ Pieces(structure, NL) = lastRun.structureLines
        /\ N <= 100 => previewContent = structure
        /\ N > 100 =>
             /\ previewContent
                  = head \o << NL, "... (truncated, total " >> \o count
                         \o << " lines)" >>
             /\ IsArrayIndex(count) /\ NumValue(count) = N
             /\ LineCount(previewContent) = 101

\* A run whose text has more than 100 lines has stored its texts
C8_Witness ==
  /\ showGenerateButton
  /\ LineCount(structure) > 100
  /\ Len(previewContent) < Len(structure)

(***************************************************************************)
(* C9                                                                      *)
(***************************************************************************)
\* C9: handlePreview with no project selection shows the alert "Please select
\* a project folder." and changes nothing else: no callback is scheduled and
\* rootFolderName, structure, previewContent, showGenerateButton, progress
\* and showProgress stay as they are.
C9_MissingInput ==
  [][(Len(projectFiles) = 0 /\ handlePreview)
     => /\ alert' = [show |-> TRUE, message |-> SELECT_PROJECT]
        /\ UNCHANGED << timers, rootFolderName, structure, previewContent,
                        showGenerateButton, progress, showProgress, lastRun,
                        globals, download >>]_vars

\* The alert of handlePreview is up, over results of an earlier preview
C9_Witness ==
  /\ alert = [show |-> TRUE, message |-> SELECT_PROJECT]
  /\ Len(projectFiles) = 0
  /\ showGenerateButton
  /\ showProgress

(***************************************************************************)
(* C10                                                                     *)
(***************************************************************************)
\* text occurs in whole inside content
Embeds(content, text) ==
  \E i \in 1..(Len(content) - Len(text) + 1) :
    SubSeq(content, i, i + Len(text) - 1) = text

\* C10: handleGenerateReadme with structure or rootFolderName empty shows the
\* alert "Missing structure or folder name.", saves no document and changes
\* nothing else; with both non-empty it saves a document named rootFolderName
\* followed by ".md" whose content holds the whole of structure.
C10_GeneratePrecondition ==
  [][handleGenerateReadme
     => IF structure = EmptyStr \/ rootFolderName = EmptyStr
        THEN /\ alert' = [show |-> TRUE, message |-> MISSING_STRUCTURE]
             /\ UNCHANGED << download, projectFiles, ignoreFiles, previewContent,
                             showGenerateButton, progress, showProgress,
                             rootFolderName, structure, timers, globals,
                             lastRun >>
        ELSE /\ download'.name = rootFolderName \o << ".md" >>
             /\ Embeds(download'.content, structure)
             /\ alert' = alert]_vars

\* A document has been saved, and later the alert of handleGenerateReadme is
\* up because rootFolderName is empty
C10_Witness ==
  /\ download # NoDownload
  /\ alert = [show |-> TRUE, message |-> MISSING_STRUCTURE]
  /\ rootFolderName = EmptyStr
  /\ structure # EmptyStr

(***************************************************************************)
(* The pipeline and the download on folders whose names hold backticks     *)
(***************************************************************************)
FENCE == << BACKTICK, BACKTICK, BACKTICK >>

\* Paths of folders named with backticks: a root folder named by three of
\* them, a file named by three of them, a file with one inside its name
FencePool ==
  { FENCE \o << SLASH, "a.md" >>,
    << "proj", SLASH >> \o FENCE,
    << "proj", SLASH, "a", BACKTICK, "b" >>,
    Path(<< "proj", "src", "x.ts" >>) }

FenceLists == UNION { [1..n -> FencePool] : n \in 1..MaxFiles }

InitReadme ==
  /\ projectFiles \in FenceLists
  /\ ignoreFiles = NullFiles
  /\ previewContent = PLACEHOLDER
  /\ showGenerateButton = FALSE
  /\ progress = 0
  /\ showProgress = FALSE
  /\ alert = NoAlert
  /\ rootFolderName = EmptyStr
  /\ structure = EmptyStr
  /\ timers = << >>
  /\ globals = PristineGlobals
  /\ lastRun = NoRun
  /\ download = NoDownload

NextReadme == handlePreview \/ deferredPreview \/ handleGenerateReadme

SpecReadme == InitReadme /\ [][NextReadme]_vars

(***************************************************************************)
(* C11                                                                     *)
(***************************************************************************)
\* A line that opens or closes a fenced block: it starts with three backticks
IsFenceLine(line) == Len(line) >= 3 /\ SubSeq(line, 1, 3) = FENCE

\* C11: a saved document is the heading line, an empty line, the line "Below
\* is the structure of the project:", an empty line, a fence line, the lines
\* of the structure and a fence line, and these two are its only fence lines,
\* whatever the names in the paths.
C11_MarkdownWrapping ==
  download # NoDownload
  => LET lines == Pieces(download.content, NL)
         n == Len(lines)
     IN /\ n >= 7
        /\ lines[1] = << "# Project File and Folder Structure" >>
        /\ lines[2] = EmptyStr
        /\ lines[3] = << "Below is the structure of the project:" >>
        /\ lines[4] = EmptyStr
        /\ lines[5] = FENCE
        /\ SubSeq(lines, 6, n - 1) = lastRun.structureLines
        /\ lines[n] = FENCE
        /\ { k \in 1..n : IsFenceLine(lines[k]) } = { 5, n }

(***************************************************************************)
(* C12                                                                     *)
(***************************************************************************)
\* Place of the connector in a line below the root line: one more than the
\* number of indent pieces before it
LineDepth(line) ==
  CHOOSE d \in 1..Len(line) :
    line[d] \in { TEE, ELL } /\ \A j \in 1..(d - 1) : line[j] \notin { TEE, ELL }

\* The name a line shows after its connector
LineKey(line) == SubSeq(line, LineDepth(line) + 1, Len(line))

\* C12: in a completed run no name of the set the run filtered with, the
\* names taken from the user's ignore selection included, is the name of a
\* node directly below the selected root folder, neither in the tree (where
\* nothing is below such a node either) nor in the lines.
C12_IgnoreExclusion ==
  RunCompleted
  => /\ \A p \in NodePaths(lastRun.tree) :
          \A i \in 1..Len(p) : i <= 2 => p[i] \notin lastRun.ignoreFolders
     /\ \A k \in 2..Len(lastRun.structureLines) :
          LineDepth(lastRun.structureLines[k]) <= 2
          => LineKey(lastRun.structureLines[k]) \notin lastRun.ignoreFolders

(***************************************************************************)
(* C13                                                                     *)
(***************************************************************************)
\* C13: whatever ran before, a run of the callback ends the way the same
\* callback (same paths, same ignore set, same root folder name) ends on a
\* freshly loaded page, and stores the same structure and the same preview.
C13_Determinism ==
  [][IsDeferredStep
     => LET fresh == runCallback(Head(timers), PristineGlobals)
        IN /\ lastRun'.thrown = fresh.thrown
           /\ lastRun'.structureText = fresh.structureText
           /\ lastRun'.preview = fresh.preview
           /\ fresh.thrown = ""
              => /\ structure' = fresh.structureText
                 /\ previewContent' = fresh.preview]_vars

(***************************************************************************)
(* C14                                                                     *)
(***************************************************************************)
\* v is x / y rounded to the nearest integer, halves upwards
IsRounded(v, x, y) == 2 * y * v <= 2 * x + y /\ 2 * x + y < 2 * y * (v + 1)

\* The run called setProgress at the indices of the set, in ascending order,
\* each time with round((i + 1) / total * 100)
ProgressAtExactly(indices) ==
  LET total == Len(lastRun.projectFiles)
      at == lastRun.progressIndices
      values == lastRun.progressValues
  IN /\ { at[k] : k \in 1..Len(at) } = indices
     /\ Len(at) = Cardinality(indices)
     /\ \A k \in 1..(Len(at) - 1) : at[k] < at[k + 1]
     /\ Len(values) = Len(at)
     /\ \A k \in 1..Len(at) : IsRounded(values[k], 100 * (at[k] + 1), total)

\* C14 as claimed: the loop reports progress for the path at index i exactly
\* when i + 1 is a multiple of 100 or i is the last index, each time with
\* round((i + 1) / total * 100).
C14_ProgressCadence ==
  RunEnded
  => LET total == Len(lastRun.projectFiles)
     IN ProgressAtExactly({ i \in 0..(total - 1) :
                              (i + 1) % 100 = 0 \/ i = total - 1 })

\* C14 as amended: the loop reports progress for the path at index i exactly
\* when i is a multiple of 100 (the first path included) or i is the last
\* index, each time with round((i + 1) / total * 100); the last report is
\* 100.
C14_ProgressCadenceAmended ==
  RunEnded
  => LET total == Len(lastRun.projectFiles)
     IN /\ ProgressAtExactly({ i \in 0..(total - 1) :
                                 i % 100 = 0 \/ i = total - 1 })
        /\ lastRun.progressValues[Len(lastRun.progressValues)] = 100

\* A run over more than 101 paths: reports at index 0, at index 100 and at a
\* later last index
C14_Witness ==
  /\ RunEnded
  /\ Len(lastRun.progressIndices) = 3
  /\ lastRun.progressIndices[2] = 100
  /\ lastRun.progressValues[1] < lastRun.progressValues[2]
  /\ lastRun.progressValues[3] = 100

(***************************************************************************)
(* C15                                                                     *)
(***************************************************************************)
\* The step is a handlePreview made with a project selection
IsAcceptedPreview == Len(projectFiles) > 0 /\ handlePreview

\* One callback more is pending, the ones before it still are, and nothing
\* of the result has changed
SchedulesOneTask ==
  /\ Len(timers') = Len(timers) + 1
  /\ SubSeq(timers', 1, Len(timers)) = timers
  /\ UNCHANGED << structure, previewContent, showGenerateButton >>

\* Every pending callback is still pending
CancelsNoTask ==
  Len(timers') >= Len(timers) /\ SubSeq(timers', 1, Len(timers)) = timers

\* The step filters, builds, prunes, renders and stores the three results
StoresTheRun ==
  /\ lastRun'.projectFiles = Head(timers).projectFiles
  /\ RunCompleted'
  /\ structure' = lastRun'.structureText
  /\ previewContent' = lastRun'.preview
  /\ showGenerateButton'
  /\ progress' = 100

\* C15: a handlePreview made with a project selection schedules exactly one
\* callback and leaves structure, previewContent and showGenerateButton as
\* they are; no other step removes a pending callback; the step of a callback
\* does the whole run, stores its three results and ends in a state with
\* showGenerateButton true and progress 100 (the state that, every pending
\* callback being run by the event loop, follows every such handlePreview).
C15_RunToCompletion ==
  [][/\ IsAcceptedPreview => SchedulesOneTask
     /\ ~ IsDeferredStep => CancelsNoTask
     /\ IsDeferredStep => StoresTheRun]_vars

(***************************************************************************)
(* C16                                                                     *)
(***************************************************************************)
\* The paths of a list whose first segment is in none of the names
KeptPaths(paths, names) ==
  SelectSeq(paths, LAMBDA path : FirstSegment(path) \notin names)

\* All segments of the paths of a list
SegmentsOf(paths) ==
  UNION { { Segments(paths[i])[k] : k \in 1..Len(Segments(paths[i])) }
          : i \in 1..Len(paths) }

\* The callback scheduled by the step holds the selections of this moment
TakesSnapshot ==
  LET task == timers'[Len(timers')]
  IN /\ task.projectFiles = projectFiles
     /\ task.ignoreFolders = UserIgnores \cup BuiltinIgnores
     /\ task.rootFolder = FirstSegment(projectFiles[1])

\* The run of the step works on the selections its callback was scheduled
\* with, whatever the selections are now
RunsOnSnapshot ==
  LET snap == Head(timers)
      kept == KeptPaths(snap.projectFiles, snap.ignoreFolders)
  IN /\ lastRun'.projectFiles = snap.projectFiles
     /\ lastRun'.ignoreFolders = snap.ignoreFolders
     /\ lastRun'.filePaths = kept
     /\ RunCompleted'
        => /\ structure' = lastRun'.structureText
           /\ previewContent' = lastRun'.preview
           /\ Pieces(structure', NL) = lastRun'.structureLines
           /\ lastRun'.structureLines[1] = snap.rootFolder
           /\ \A k \in 2..Len(lastRun'.structureLines) :
                LineKey(lastRun'.structureLines[k]) \in SegmentsOf(kept)

\* C16: handlePreview hands its callback the project paths and the ignore
\* names of the moment it is invoked, and the run of the callback filters and
\* renders these, whatever the project selection and the ignore selection
\* have become by the time it runs.
C16_InputSnapshot ==
  [][/\ IsAcceptedPreview => TakesSnapshot
     /\ IsDeferredStep => RunsOnSnapshot]_vars

\* handleStartOver came between a handlePreview on proj and the run of its
\* callback: the run has stored the structure of proj although both
\* selections are empty
C16_Witness ==
  /\ RunCompleted
  /\ lastRun.projectFiles = ProjFolder
  /\ projectFiles = NullFiles
  /\ rootFolderName = EmptyStr
  /\ Len(Pieces(structure, NL)) > 1
  /\ structure = lastRun.structureText

(***************************************************************************)
(* C17                                                                     *)
(***************************************************************************)
\* C17: the lines of a completed run are the root line and one line per node
\* of the pruned tree and no other; the line of a node stands at the node's
\* rank in the depth-first order (a node, then all that is below it, then its
\* next sibling), shows the node's key and is as deep as the node; so a node
\* without keys is followed at once by the line of a node that is not below
\* it.
C17_PreOrder ==
  RunCompleted
  => /\ Len(lastRun.structureLines) = 1 + NodeCount(lastRun.tree)
     /\ NodeCount(lastRun.tree) = Cardinality(NodePaths(lastRun.tree))
     /\ \A p \in NodePaths(lastRun.tree) :
          /\ LineKey(RunLine(p)) = Last(p)
          /\ LineDepth(RunLine(p)) = Len(p)
          /\ (GetAt(lastRun.tree, p) = NoKeys
              /\ 1 + LineOf(lastRun.tree, p) < Len(lastRun.structureLines))
             => LineDepth(lastRun.structureLines[2 + LineOf(lastRun.tree, p)])
                  <= Len(p)

\* A completed run on a tree three levels deep in which a node without keys
\* is followed by another line
C17_Witness ==
  /\ RunCompleted
  /\ \E p \in NodePaths(lastRun.tree) : Len(p) = 3
  /\ \E p \in NodePaths(lastRun.tree) :
       /\ GetAt(lastRun.tree, p) = NoKeys
       /\ 1 + LineOf(lastRun.tree, p) < Len(lastRun.structureLines)

(***************************************************************************)
(* C18                                                                     *)
(***************************************************************************)
\* The results are as handleStartOver leaves them
IsReset ==
  /\ structure = EmptyStr
  /\ rootFolderName = EmptyStr
  /\ previewContent = PLACEHOLDER
  /\ ~ showGenerateButton
  /\ ~ showProgress

\* C18: handleStartOver leaves structure and rootFolderName empty,
\* previewContent the placeholder, showGenerateButton and showProgress false,
\* and no step other than a handlePreview changes any of that afterwards,
\* the step of a callback that was pending included.
C18_ResetDurable ==
  [][/\ handleStartOver => IsReset'
     /\ (IsReset /\ ~ handlePreview) => IsReset']_vars

(***************************************************************************)
(* C19                                                                     *)
(***************************************************************************)
\* C19: in every state with a structure, the first line of structure is
\* rootFolderName; and a saved document named N.md holds, as the first line
\* between its fences, N.
C19_StructureRootName ==
  /\ structure # EmptyStr => Pieces(structure, NL)[1] = rootFolderName
  /\ download # NoDownload
     => download.name = Pieces(download.content, NL)[6] \o << ".md" >>

(***************************************************************************)
(* C20                                                                     *)
(***************************************************************************)
\* C20: in every state that shows the generate button, structure and
\* rootFolderName are both non-empty, and every handleGenerateReadme saves a
\* document and raises no alert.
C20_ButtonImpliesGeneratable ==
  [][/\ showGenerateButton' => (structure' # EmptyStr /\ rootFolderName' # EmptyStr)
     /\ handleGenerateReadme
        => /\ Embeds(download'.content, structure)
           /\ download'.name = rootFolderName \o << ".md" >>
           /\ alert' = alert]_vars
====
